---------------------------- MODULE Spec2Model ----------------------------
(* Model of src/src/main.py: the /predict endpoint with its Prometheus      *)
(* metrics, and the drift-monitoring job run by an APScheduler               *)
(* BackgroundScheduler every minute.                                         *)
(*                                                                           *)
(* The job runs on a worker thread of the scheduler's executor, so its       *)
(* steps interleave with the steps of /predict requests and with further    *)
(* scheduler ticks.  detect_data_drift and detect_concept_drift are imported *)
(* from src.data_drift / src.concept_drift, which are not part of the        *)
(* available source; they are modelled from the specification's comparator   *)
(* contracts (pure, may fail).                                               *)
EXTENDS Naturals, Sequences, FiniteSets

VARIABLES
    model_pipeline,           \* main.py:22-29  "pipeline" or "None"
    X_reference,              \* main.py:47
    y_reference,              \* main.py:48
    data_drift_gauge,         \* main.py:42  last value set
    concept_drift_gauge,      \* main.py:43  last value set
    query_counter,            \* main.py:39
    response_time_histogram,  \* main.py:32  number of observations
    cpu_usage_gauge,          \* main.py:37
    memory_usage_gauge,       \* main.py:38
    requests,                 \* /predict requests: position and response
    job_scheduled,            \* main.py:113 the job is in the scheduler's job store
    ticks,                    \* interval triggers fired so far
    skipped_ticks,            \* triggers dropped because an instance was running
    cycles,                   \* one record per started run of monitor_drifts
    fetches,                  \* number of batches sampled so far (batch identity)
    events,                   \* what the process wrote out about each cycle
    process                   \* "running", "stopping", "exited", "crashed"

vars == << model_pipeline, X_reference, y_reference, data_drift_gauge,
           concept_drift_gauge, query_counter, response_time_histogram,
           cpu_usage_gauge, memory_usage_gauge, requests, job_scheduled,
           ticks, skipped_ticks, cycles, fetches, events, process >>

metrics == << query_counter, response_time_histogram, cpu_usage_gauge,
              memory_usage_gauge >>
drift_gauges == << data_drift_gauge, concept_drift_gauge >>
shared == << model_pipeline, X_reference, y_reference >>
serving == << metrics, requests >>
monitoring == << job_scheduled, ticks, skipped_ticks, cycles, fetches, events >>

---------------------------------------------------------------------------
(* Bounds of the model *)
MaxTicks == 3
MaxRequests == 2

ReqIds == 1..MaxRequests

(* The distribution a sampled batch follows: "A" is the reference's, "B" a   *)
(* shifted one.                                                              *)
Samples == {"A", "B"}

(* psutil readings recorded by a request (cpu percent, memory percent). *)
Usages == { [cpu |-> 25, mem |-> 60], [cpu |-> 75, mem |-> 40] }

(* A column selection of a dataset: which part, of which fetch, of which     *)
(* distribution.  Fetch 0 is the dataset loaded at import time.              *)
Table(name, fetch, sample) == [name |-> name, fetch |-> fetch, sample |-> sample]
NoTable == Table("none", 0, "none")

(* A freshly created Gauge reads 0 until set: no inputs stand behind it. *)
NoDataScore == [ref |-> NoTable, cur |-> NoTable]
NoConceptScore == [model |-> "none", Xref |-> NoTable, yref |-> NoTable,
                   Xcur |-> NoTable, ycur |-> NoTable]

---------------------------------------------------------------------------
(* The comparators (src/data_drift.py, src/concept_drift.py: not available). *)
(* Each is a pure function of its arguments; its score is represented by    *)
(* the arguments it was computed from.  fault: the comparator raises.        *)
detect_data_drift(Xref, Xcur, fault) ==
    IF fault
    THEN [ok |-> FALSE, verdict |-> FALSE, score |-> NoDataScore]
    ELSE [ok |-> TRUE,
          verdict |-> Xref.sample # Xcur.sample,
          score |-> [ref |-> Xref, cur |-> Xcur]]

detect_concept_drift(model, Xref, yref, Xcur, ycur, fault) ==
    IF model = "None" \/ fault
    THEN [ok |-> FALSE, verdict |-> FALSE, score |-> NoConceptScore]
    ELSE [ok |-> TRUE,
          verdict |-> yref.sample # ycur.sample,
          score |-> [model |-> model, Xref |-> Xref, yref |-> yref,
                     Xcur |-> Xcur, ycur |-> ycur]]

---------------------------------------------------------------------------
Init ==
    /\ model_pipeline \in {"pipeline", "None"}
    /\ X_reference = Table("X", 0, "A")
    /\ y_reference = Table("y", 0, "A")
    /\ data_drift_gauge = NoDataScore
    /\ concept_drift_gauge = NoConceptScore
    /\ query_counter = 0
    /\ response_time_histogram = 0
    /\ cpu_usage_gauge = 0
    /\ memory_usage_gauge = 0
    /\ requests = [r \in ReqIds |-> [pc |-> "new", status |-> 0, detail |-> ""]]
    /\ job_scheduled = TRUE
    /\ ticks = 0
    /\ skipped_ticks = 0
    /\ cycles = << >>
    /\ fetches = 0
    /\ events = {}
    /\ process = "running"


---------------------------------------------------------------------------
(* POST /predict (main.py:54-78).  An async handler: the code up to the      *)
(* await of request.json() runs as one step on the event loop, the rest as   *)
(* a second step once the body has been read.                                *)

(* Requests are numbered in order of arrival. *)
NextArrival(r) == requests[r].pc = "new" /\ \A q \in ReqIds : q < r => requests[q].pc # "new"

HttpResponse(code, text) == [pc |-> "done", status |-> code, detail |-> text]

(* A variant that counts the query before looking at the model. *)
PredictBeginCountsFirst(r) ==
    /\ process = "running"
    /\ NextArrival(r)
    /\ query_counter' = query_counter + 1
    /\ IF model_pipeline = "None"
       THEN /\ requests' = [requests EXCEPT
                   ![r] = HttpResponse(500, "Model pipeline not loaded properly")]
            /\ UNCHANGED << response_time_histogram, cpu_usage_gauge, memory_usage_gauge >>
       ELSE /\ \E u \in Usages :
                  /\ cpu_usage_gauge' = u.cpu
                  /\ memory_usage_gauge' = u.mem
            /\ requests' = [requests EXCEPT ![r].pc = "awaiting"]
            /\ UNCHANGED response_time_histogram
    /\ UNCHANGED << shared, drift_gauges, monitoring, process >>

(* main.py:55-69: the None check, the counter, the resource gauges, the      *)
(* timer, and the start of the body read.                                    *)
PredictBegin(r) ==
    /\ process = "running"
    /\ NextArrival(r)
    /\ IF model_pipeline = "None"
       THEN /\ requests' = [requests EXCEPT
                   ![r] = HttpResponse(500, "Model pipeline not loaded properly")]
            /\ UNCHANGED metrics
       ELSE /\ query_counter' = query_counter + 1
            /\ \E u \in Usages :
                  /\ cpu_usage_gauge' = u.cpu
                  /\ memory_usage_gauge' = u.mem
            /\ requests' = [requests EXCEPT ![r].pc = "awaiting"]
            /\ UNCHANGED response_time_histogram
    /\ UNCHANGED << shared, drift_gauges, monitoring, process >>

(* What the second half of a request can meet: the body parses and the       *)
(* model predicts, request.json() raises, or model_pipeline.predict raises.  *)
Outcomes == {"ok", "bad_body", "predict_error"}

(* A variant that observes the response time also when the request fails    *)
(* (the observation placed in a finally block).                              *)
PredictResumeObservesAlways(r) ==
    /\ requests[r].pc = "awaiting"
    /\ \E outcome \in Outcomes :
          requests' = [requests EXCEPT ![r] =
              IF outcome = "ok" THEN HttpResponse(200, "prediction")
              ELSE HttpResponse(500, "Internal Server Error")]
    /\ response_time_histogram' = response_time_histogram + 1
    /\ UNCHANGED << query_counter, cpu_usage_gauge, memory_usage_gauge >>
    /\ UNCHANGED << shared, drift_gauges, monitoring, process >>

(* main.py:69-78: an exception of request.json(), pd.DataFrame or            *)
(* model_pipeline.predict leaves the handler before line 76; the framework   *)
(* answers 500.                                                              *)
PredictResume(r) ==
    /\ requests[r].pc = "awaiting"
    /\ \E outcome \in Outcomes :
          IF outcome = "ok"
          THEN /\ response_time_histogram' = response_time_histogram + 1
               /\ requests' = [requests EXCEPT ![r] = HttpResponse(200, "prediction")]
          ELSE /\ UNCHANGED response_time_histogram
               /\ requests' = [requests EXCEPT
                      ![r] = HttpResponse(500, "Internal Server Error")]
    /\ UNCHANGED << query_counter, cpu_usage_gauge, memory_usage_gauge >>
    /\ UNCHANGED << shared, drift_gauges, monitoring, process >>

---------------------------------------------------------------------------
(* The scheduler and its job (main.py:111-114).  add_job is called without   *)
(* max_instances, coalesce or an executor: APScheduler's defaults apply, one *)
(* running instance per job on a thread-pool executor whose run_job catches  *)
(* and logs whatever the job raises.                                         *)

CycleIds == 1..Len(cycles)
Terminal == {"ok", "error", "abandoned"}
RunningCycles == {i \in CycleIds : cycles[i].pc \notin Terminal}

(* A run of monitor_drifts that has just been submitted to the executor. *)
NewCycle ==
    [pc |-> "fetch", err |-> "none", model |-> model_pipeline,
     X_current |-> NoTable, y_current |-> NoTable, nfetch |-> 0,
     dataArgs |-> NoDataScore, conceptArgs |-> NoConceptScore,
     wroteData |-> FALSE, wroteConcept |-> FALSE]

(* A scheduler that submits a run whatever is already running. *)
CanSubmitUnlimited == TRUE

(* main.py:113: max_instances is left at its default of one. *)
CanSubmit == Cardinality(RunningCycles) < 1

(* The trigger fires and the run is handed to the executor. *)
StartCycle ==
    /\ CanSubmit
    /\ cycles' = Append(cycles, NewCycle)
    /\ UNCHANGED skipped_ticks

(* The trigger fires while the previous run is still executing: the          *)
(* scheduler drops this run.                                                 *)
SkipTick ==
    /\ ~CanSubmit
    /\ skipped_ticks' = skipped_ticks + 1
    /\ UNCHANGED cycles

(* One firing of the interval trigger.  The scheduler thread is never told   *)
(* to stop (no scheduler.shutdown() in main.py), so it fires as long as the  *)
(* process lives.                                                            *)
Tick ==
    /\ process \in {"running", "stopping"}
    /\ job_scheduled
    /\ ticks < MaxTicks
    /\ ticks' = ticks + 1
    /\ (StartCycle \/ SkipTick)
    /\ UNCHANGED << shared, drift_gauges, serving, job_scheduled, fetches, events, process >>

JobError(i) == [cycle |-> i, kind |-> "job_error"]

(* An exception that leaves monitor_drifts unhandled and takes the process   *)
(* down with it.                                                             *)
JobRaisedFatal(i, step) ==
    /\ cycles' = [cycles EXCEPT ![i].pc = "error", ![i].err = step]
    /\ events' = events \cup {JobError(i)}
    /\ process' = "crashed"
    /\ job_scheduled' = FALSE

(* monitor_drifts has no try/except (main.py:80-103): what it raises reaches *)
(* the executor, which logs the exception and ends the run; the job stays    *)
(* scheduled and the process goes on.                                        *)
JobRaised(i, step) ==
    /\ cycles' = [cycles EXCEPT ![i].pc = "error", ![i].err = step]
    /\ events' = events \cup {JobError(i)}
    /\ UNCHANGED << process, job_scheduled >>

Alive == process \in {"running", "stopping"}

(* main.py:82-84: sample the current batch; load_dataset can raise. *)
Fetch(i) ==
    /\ Alive
    /\ i \in CycleIds
    /\ cycles[i].pc = "fetch"
    /\ \E ok \in BOOLEAN :
          IF ok
          THEN /\ \E s \in Samples :
                     cycles' = [cycles EXCEPT
                         ![i].pc = "data",
                         ![i].X_current = Table("X", fetches + 1, s),
                         ![i].y_current = Table("y", fetches + 1, s),
                         ![i].nfetch = @ + 1]
               /\ fetches' = fetches + 1
               /\ UNCHANGED << events, process, job_scheduled >>
          ELSE /\ JobRaised(i, "fetch")
               /\ UNCHANGED fetches
    /\ UNCHANGED << shared, drift_gauges, serving, ticks, skipped_ticks >>

(* A variant that stores the batch as the new baseline while comparing. *)
DataDriftRebaselines(i) ==
    /\ Alive
    /\ i \in CycleIds
    /\ cycles[i].pc = "data"
    /\ \E fault \in BOOLEAN :
          LET r == detect_data_drift(X_reference, cycles[i].X_current, fault) IN
          IF r.ok
          THEN /\ data_drift_gauge' = r.score
               /\ X_reference' = cycles[i].X_current
               /\ cycles' = [cycles EXCEPT ![i].pc = "concept",
                                           ![i].dataArgs = r.score,
                                           ![i].wroteData = TRUE]
               /\ UNCHANGED << events, process, job_scheduled >>
          ELSE /\ JobRaised(i, "data")
               /\ UNCHANGED << data_drift_gauge, X_reference >>
    /\ UNCHANGED << model_pipeline, y_reference, concept_drift_gauge, serving,
                    ticks, skipped_ticks, fetches >>

(* main.py:86-88: data drift detection; the gauge is set as soon as the      *)
(* score is known.                                                           *)
DataDrift(i) ==
    /\ Alive
    /\ i \in CycleIds
    /\ cycles[i].pc = "data"
    /\ \E fault \in BOOLEAN :
          LET r == detect_data_drift(X_reference, cycles[i].X_current, fault) IN
          IF r.ok
          THEN /\ data_drift_gauge' = r.score
               /\ cycles' = [cycles EXCEPT ![i].pc = "concept",
                                           ![i].dataArgs = r.score,
                                           ![i].wroteData = TRUE]
               /\ UNCHANGED << events, process, job_scheduled >>
          ELSE /\ JobRaised(i, "data")
               /\ UNCHANGED data_drift_gauge
    /\ UNCHANGED << shared, concept_drift_gauge, serving, ticks, skipped_ticks, fetches >>

(* main.py:100-103: the verdicts printed at the end of a run. *)
Prints(i, is_data_drift, is_concept_drift) ==
    (IF is_data_drift THEN {[cycle |-> i, kind |-> "Data drift detected!"]} ELSE {})
    \cup
    (IF is_concept_drift THEN {[cycle |-> i, kind |-> "Concept drift detected!"]} ELSE {})

DataVerdict(i) == cycles[i].dataArgs.ref.sample # cycles[i].dataArgs.cur.sample

(* A variant that swallows the comparator's error and publishes the value    *)
(* of an empty comparison instead.                                           *)
ConceptDriftDefaultsOnError(i) ==
    /\ Alive
    /\ i \in CycleIds
    /\ cycles[i].pc = "concept"
    /\ \E fault \in BOOLEAN :
          LET r == detect_concept_drift(model_pipeline, X_reference, y_reference,
                       cycles[i].X_current, cycles[i].y_current, fault) IN
          /\ concept_drift_gauge' = r.score
          /\ cycles' = [cycles EXCEPT ![i].pc = "ok",
                                      ![i].conceptArgs = r.score,
                                      ![i].wroteConcept = TRUE]
          /\ events' = events \cup Prints(i, DataVerdict(i), r.verdict)
          /\ UNCHANGED << process, job_scheduled >>
    /\ UNCHANGED << shared, data_drift_gauge, serving, ticks, skipped_ticks, fetches >>

(* A variant that samples a second batch for the concept comparison. *)
ConceptDriftRefetches(i) ==
    /\ Alive
    /\ i \in CycleIds
    /\ cycles[i].pc = "concept"
    /\ \E fault \in BOOLEAN, s \in Samples :
          LET r == detect_concept_drift(model_pipeline, X_reference, y_reference,
                       Table("X", fetches + 1, s), Table("y", fetches + 1, s), fault) IN
          IF r.ok
          THEN /\ concept_drift_gauge' = r.score
               /\ cycles' = [cycles EXCEPT ![i].pc = "ok",
                                           ![i].conceptArgs = r.score,
                                           ![i].nfetch = @ + 1,
                                           ![i].wroteConcept = TRUE]
               /\ events' = events \cup Prints(i, DataVerdict(i), r.verdict)
               /\ fetches' = fetches + 1
               /\ UNCHANGED << process, job_scheduled >>
          ELSE /\ JobRaised(i, "concept")
               /\ UNCHANGED << concept_drift_gauge, fetches >>
    /\ UNCHANGED << shared, data_drift_gauge, serving, ticks, skipped_ticks >>

(* main.py:90-103: concept drift detection on the same batch, the gauge,     *)
(* and the printed verdicts.                                                 *)
ConceptDrift(i) ==
    /\ Alive
    /\ i \in CycleIds
    /\ cycles[i].pc = "concept"
    /\ \E fault \in BOOLEAN :
          LET r == detect_concept_drift(model_pipeline, X_reference, y_reference,
                       cycles[i].X_current, cycles[i].y_current, fault) IN
          IF r.ok
          THEN /\ concept_drift_gauge' = r.score
               /\ cycles' = [cycles EXCEPT ![i].pc = "ok",
                                           ![i].conceptArgs = r.score,
                                           ![i].wroteConcept = TRUE]
               /\ events' = events \cup Prints(i, DataVerdict(i), r.verdict)
               /\ UNCHANGED << process, job_scheduled >>
          ELSE /\ JobRaised(i, "concept")
               /\ UNCHANGED concept_drift_gauge
    /\ UNCHANGED << shared, data_drift_gauge, serving, ticks, skipped_ticks, fetches >>

---------------------------------------------------------------------------
(* Process lifecycle (main.py:116-122).  uvicorn.run returns after a         *)
(* termination signal once the open requests have been answered; nothing     *)
(* in main.py stops the scheduler, whose thread runs until the interpreter   *)
(* exits.                                                                    *)

(* The server receives the termination signal and stops accepting requests. *)
RequestShutdown ==
    /\ process = "running"
    /\ process' = "stopping"
    /\ UNCHANGED << shared, drift_gauges, serving, monitoring >>

(* The interpreter exits: a run still executing is cut off. *)
ProcessExit ==
    /\ process = "stopping"
    /\ \A r \in ReqIds : requests[r].pc # "awaiting"
    /\ process' = "exited"
    /\ cycles' = [i \in CycleIds |->
                     IF i \in RunningCycles
                     THEN [cycles[i] EXCEPT !.pc = "abandoned"]
                     ELSE cycles[i]]
    /\ UNCHANGED << shared, drift_gauges, serving, job_scheduled, ticks,
                    skipped_ticks, fetches, events >>

---------------------------------------------------------------------------
Next ==
    \/ \E r \in ReqIds : PredictBegin(r)
    \/ \E r \in ReqIds : PredictResume(r)
    \/ Tick
    \/ \E i \in CycleIds : Fetch(i)
    \/ \E i \in CycleIds : DataDrift(i)
    \/ \E i \in CycleIds : ConceptDrift(i)
    \/ RequestShutdown
    \/ ProcessExit

Spec == Init /\ [][Next]_vars

---------------------------------------------------------------------------
(* Properties *)

NotLoadedResponse == HttpResponse(500, "Model pipeline not loaded properly")

(* C1: at most one run of monitor_drifts is in progress in every reachable   *)
(* state, and every trigger firing either started a run or, because a run    *)
(* was still in progress, was dropped.                                       *)
C1_CyclesNeverOverlap ==
    /\ Cardinality(RunningCycles) <= 1
    /\ ticks = Len(cycles) + skipped_ticks

C1_Witness ==
    /\ skipped_ticks > 0
    /\ Cardinality(RunningCycles) = 1

(* C2 (as claimed): a run whose batch fetch failed set neither drift gauge   *)
(* and produced exactly one event with cycle_status skipped.                 *)
SkippedEvents(i) == {e \in events : e.cycle = i /\ e.kind = "cycle_status: skipped"}

C2_SkippedCycleOneEvent ==
    \A i \in CycleIds :
        cycles[i].err = "fetch" =>
            /\ ~cycles[i].wroteData
            /\ ~cycles[i].wroteConcept
            /\ Cardinality(SkippedEvents(i)) = 1

(* C3 (as claimed): a run in which a comparator failed set neither drift     *)
(* gauge, so whenever no run is in progress both gauges hold scores of the   *)
(* same batch.                                                               *)
C3_FailedCyclePublishesNothing ==
    /\ \A i \in CycleIds :
          cycles[i].err \in {"data", "concept"} =>
              ~cycles[i].wroteData /\ ~cycles[i].wroteConcept
    /\ (Alive /\ RunningCycles = {}) =>
          data_drift_gauge.cur.fetch = concept_drift_gauge.Xcur.fetch

(* C4: after a run that raised, the process has not been taken down, the     *)
(* run is over, the job is still scheduled, and with no run in progress the  *)
(* next trigger firing starts a new run.                                     *)
TickStartsCycle == Tick /\ Len(cycles') = Len(cycles) + 1

C4_BadCycleNeverStopsMonitoring ==
    \A i \in CycleIds :
        cycles[i].pc = "error" =>
            /\ process # "crashed"
            /\ job_scheduled
            /\ i \notin RunningCycles
            /\ (Alive /\ RunningCycles = {} /\ ticks < MaxTicks) => ENABLED TickStartsCycle

C4_Witness ==
    \E i, j \in CycleIds :
        /\ i < j
        /\ cycles[i].pc = "error"
        /\ cycles[j].pc = "ok"

(* C5: a run that executed without a model never set the concept_drift       *)
(* gauge and never ended normally; once over it ended with the error the     *)
(* executor logged.                                                          *)
C5_NoConceptScoreWithoutModel ==
    /\ \A i \in CycleIds :
          cycles[i].model = "None" =>
              /\ ~cycles[i].wroteConcept
              /\ cycles[i].pc # "ok"
              /\ cycles[i].pc = "error" => JobError(i) \in events
    /\ model_pipeline = "None" => concept_drift_gauge = NoConceptScore

C5_Witness ==
    \E i \in CycleIds :
        /\ cycles[i].model = "None"
        /\ cycles[i].err = "concept"
        /\ cycles[i].wroteData

(* C6: in every run that published both results, the run fetched once, both  *)
(* comparators received that fetch's features (and the concept comparator    *)
(* its labels), and both received the same reference.                        *)
C6_OneBatchPerCycle ==
    \A i \in CycleIds :
        cycles[i].pc = "ok" =>
            /\ cycles[i].nfetch = 1
            /\ cycles[i].X_current.fetch = cycles[i].y_current.fetch
            /\ cycles[i].dataArgs.cur = cycles[i].X_current
            /\ cycles[i].conceptArgs.Xcur = cycles[i].X_current
            /\ cycles[i].conceptArgs.ycur = cycles[i].y_current
            /\ cycles[i].dataArgs.ref = cycles[i].conceptArgs.Xref
            /\ cycles[i].dataArgs.ref = X_reference
            /\ cycles[i].conceptArgs.yref = y_reference

C6_Witness ==
    \E i, j \in CycleIds :
        /\ i < j
        /\ cycles[i].pc = "ok"
        /\ cycles[j].pc = "ok"
        /\ cycles[i].X_current.sample # cycles[j].X_current.sample

(* C7: no step of a monitoring run, of a /predict request or of the          *)
(* scheduler changes the reference snapshot or the model.                    *)
C7_SharedNeverMutated == [][shared' = shared]_vars

C7_Witness ==
    /\ \E i \in CycleIds : cycles[i].pc = "ok"
    /\ \E r \in ReqIds : requests[r].status = 200
    /\ X_reference = Table("X", 0, "A")
    /\ model_pipeline = "pipeline"

(* C8 (as claimed): once shutdown has been requested, no trigger firing      *)
(* starts a run.                                                             *)
C8_NoCycleAfterShutdown == [][process = "stopping" => Len(cycles') = Len(cycles)]_vars

(* C9: without a model every answered /predict request got the 500 "Model    *)
(* pipeline not loaded properly", and the counter, the cpu and memory gauges  *)
(* and the histogram still read what they read at start.                     *)
C9_NoModelNoMetrics ==
    model_pipeline = "None" =>
        /\ query_counter = 0
        /\ response_time_histogram = 0
        /\ cpu_usage_gauge = 0
        /\ memory_usage_gauge = 0
        /\ \A r \in ReqIds : requests[r].pc # "new" => requests[r] = NotLoadedResponse

C9_Witness ==
    /\ model_pipeline = "None"
    /\ \A r \in ReqIds : requests[r] = NotLoadedResponse

(* C10: the histogram never holds more observations than queries were        *)
(* counted; it holds one per successfully answered request, so the two are   *)
(* equal exactly when every counted request has been answered successfully.  *)
Counted == {r \in ReqIds : requests[r].pc # "new" /\ requests[r] # NotLoadedResponse}
Succeeded == {r \in Counted : requests[r].status = 200}

C10_HistogramBoundedByCounter ==
    /\ response_time_histogram <= query_counter
    /\ query_counter = Cardinality(Counted)
    /\ response_time_histogram = Cardinality(Succeeded)
    /\ (response_time_histogram = query_counter) <=> (Succeeded = Counted)

C10_Witness ==
    /\ query_counter = MaxRequests
    /\ response_time_histogram = 1
    /\ \A r \in ReqIds : requests[r].pc = "done"

=============================================================================
